---- MODULE Spec2Model ----
(***************************************************************************)
(* A model of the batch export pipeline of weread-export:                  *)
(*   batchRun / sleep          (batch.ts, src/unnamed/part_000:306-333)    *)
(*   exportBookAsMarkdown      (exporter.ts, List.svelte:434-548)          *)
(*   handleBulkExport          (List.svelte:106-167)                       *)
(*   sanitizeFileName          (exporter.ts, List.svelte:550-553)          *)
(*   buildCombinedExport, csv  (exporter.ts, List.svelte:576-651)          *)
(*   ExportRequestError        (exporter.ts, List.svelte:434-456)          *)
(* JavaScript is single threaded and cooperative: a step of the model is   *)
(* the code that runs between two suspension points (await).               *)
(***************************************************************************)
EXTENDS Integers, Sequences, FiniteSets, TLC

\* ------------------------------------------------------------------ bounds
MaxItems == 3
MaxRetries == 2
MaxBooks == 3
MaxNameLen == 4
MaxExportBooks == 2
MaxNotes == 1
MaxStatus == 600

\* ------------------------------------------------------------ small helpers
Min(a, b) == IF a < b THEN a ELSE b
Max(a, b) == IF a > b THEN a ELSE b
Range(s) == {s[i] : i \in DOMAIN s}

\* Lanes that batchRun may start; one more than MaxItems so that an unclamped
\* runner count stays inside the domain.
Lanes == 1..(Max(MaxItems, MaxBooks) + 1)
\* concurrency values a caller may pass (0 and > items.length included)
ConcurrencyChoices == (0 - 1)..(MaxItems + 1)
\* delayMs values a caller may pass (0 = no pacing)
DelayChoices == {0, 15}
\* the arrays the test callers pass: [1], [1,2], ...
ItemChoices == {[i \in 1..n |-> i] : n \in 0..MaxItems}
\* "no error" / "no index yet": a value outside every index range
NoError == 0 - 1

\* List.svelte:12-15
BATCH_OPTIONS == [concurrency |-> 2, delayMs |-> 1500]
RETRY_SCHEDULE == <<1000, 3000, 7000>>
BULK_RETRIES == 2
REQUEST_RETRY_DELAYS_WholeSchedule == RETRY_SCHEDULE
REQUEST_RETRY_DELAYS == SubSeq(RETRY_SCHEDULE, 1, 2)

\* book ids ("1", "2", ...) and the selections a bulk export may start from
Books == 1..MaxBooks
Selections == {[i \in 1..n |-> i] : n \in 0..MaxBooks}
\* no book has its attempts and fetch calls counted over the bulk run
NoBook == 0

\* List.svelte:512-516 the three urls of one attempt
Urls == {"bookmarklist", "review", "getProgress"}

\* What one fetch may do: reject (network failure), or resolve with a response
\* of some status whose body is json the renderer accepts, is not json at
\* all, or is json on which generateBookMark throws.
Statuses == {200, 404, 429, 499, 500}
Response(st, b) == [kind |-> "response", status |-> st, body |-> b]
FetchRejected == [kind |-> "rejected", status |-> 0, body |-> ""]
FetchOutcomes ==
    {Response(st, "") : st \in Statuses \ {200}}
        \cup {Response(200, b) : b \in {"json", "malformed", "unrenderable"}}
        \cup {FetchRejected}
\* the behaviours of the endpoints a run may face: always the same outcome (a
\* test's fetch mock), one of two, or anything
EndpointChoices ==
    {E \in SUBSET FetchOutcomes : Cardinality(E) \in {1, 2} \/ E = FetchOutcomes}
\* the endpoints of a bulk run: one outcome of each kind the bulk worker can
\* tell apart (a permanent failure, a retryable failure, a good answer)
BulkEndpoints ==
    {Response(404, ""), Response(500, ""), Response(200, "json")}
\* retryDelays a caller may pass: [] ... up to MaxRetries entries, 0 included
\* the attempts of a call, numbered from 1
Attempts == 1..(MaxRetries + 1)
RetryDelayChoices ==
    UNION {[1..n -> {0, 1000}] : n \in 0..MaxRetries}

\* ---- text: a string is a sequence of characters
\* the characters of the class of List.svelte:551
IllegalChars == {"\\", "/", ":", "*", "?", "\"", "<", ">", "|"}
\* white space as String.prototype.trim understands it (the common members)
WhiteSpace == {" ", "\t", "\n", "\r"}
\* the characters file names are drawn from
NameChars == {"a", " ", "/", ":"}
NameChoices == UNION {[1..n -> NameChars] : n \in 0..MaxNameLen}
\* the label of List.svelte:552, one element per character
FallbackName == <<"U+5BFC", "U+51FA">>
NoResult == <<"<none>">>

\* ---- JavaScript values: undefined, a string, a number, an array
Undef == [t |-> "undefined", v |-> <<>>]
Str(s) == [t |-> "string", v |-> s]
Num(n) == [t |-> "number", v |-> n]
Arr(a) == [t |-> "array", v |-> a]
\* the texts the fields of a book are drawn from: empty, plain, with a double
\* quote, with LF, with CR LF, with a lone CR and a comma, with a backslash
TextChoices ==
    { <<>>,
      <<"a">>,
      <<"A", " ", "\"", "q", "\"">>,
      <<"l", "\n", "m">>,
      <<"l", "\r", "\n", "m">>,
      <<"\r", ",">>,
      <<"\\", "n">> }
\* the fields of a NoteRecord (List.svelte:404-420) and of the stand-in note
\* of a book without notes (List.svelte:621)
NoteFields == {"bookId", "coverUrl", "chapterUid", "chapterTitle", "range",
               "markText", "markdown", "reviewText", "createdAt",
               "readingTime", "startTime", "finishTime"}
\* the j-th note of a book whose texts are tx: the first chapter has uid 0,
\* times may be missing
NoteOf(tx, j) ==
    [bookId |-> Undef, coverUrl |-> Undef, chapterUid |-> Num(j - 1),
     chapterTitle |-> Str(tx), range |-> Str(<<"1", "-", "2">>),
     markText |-> Str(tx), markdown |-> Undef, reviewText |-> Str(tx),
     createdAt |-> Num(123), readingTime |-> Num(10 * (j - 1)),
     startTime |-> Undef, finishTime |-> Num(2)]
\* an ExportedBook (List.svelte:422-430) with k notes; without notes the
\* array may be missing
BookOf(tx, k, missing) ==
    [bookId |-> Str(<<"b", "1">>), title |-> Str(tx), markdown |-> Str(tx),
     coverUrl |-> IF k = 0 THEN Undef ELSE Str(<<"c">>),
     author |-> IF k = 0 THEN Undef ELSE Str(tx),
     rating |-> Num(k),
     notes |-> IF missing THEN Undef ELSE Arr([j \in 1..k |-> NoteOf(tx, j)])]
BookChoices ==
    {BookOf(tx, k, FALSE) : tx \in TextChoices, k \in 0..MaxNotes}
        \cup {BookOf(<<"a">>, 0, TRUE)}
ExportItemChoices == UNION {[1..n -> BookChoices] : n \in 0..MaxExportBooks}
NoOutput == [fileName |-> "", content |-> <<>>, mimeType |-> ""]

\* ---- new ExportRequestError(message, status): status is optional
NoStatus == 0 - 1       \* status absent (undefined); a status is never negative
StatusChoices == {NoStatus} \cup 0..MaxStatus
NotCalled == <<>>

VARIABLES
    \* ---- new ExportRequestError(message, status) and isRetryableError(error)
    statusArg,      \* the status passed to the constructor
    requestError,   \* the error constructed (NoErr before)
    retryable,      \* <<value returned by isRetryableError>> (NotCalled before)
    \* ---- sanitizeFileName(name)
    name,           \* the argument
    fileName,       \* the value returned (NoResult before the call)
    \* ---- buildCombinedExport(items, "csv")
    exportItems,    \* the books passed in
    exportOutput,   \* { fileName, content, mimeType } (NoOutput before the call)
    \* ---- batchRun(items, worker, {concurrency, delayMs})
    items,          \* the array passed in
    worker,         \* which worker is passed: "test", "bulk" ("none": no batch)
    concurrency,
    delayMs,
    runnerCount,    \* number of runner() calls made (0 before the call)
    idx,            \* the shared index counter
    runners,        \* position of each runner: see RunnerStates
    current,        \* each runner's `current`
    promiseAll,     \* Promise.all(runners): [state, error]
    batchState,     \* the promise batchRun returned: idle/running/fulfilled/rejected
    batchError,     \* the error it rejected with (the index whose worker raised)
    \* ---- history of the run (what a test's worker would record)
    active,         \* indices whose worker has started and not finished
    claimed,        \* indices in the order they were passed to worker
    pauses,         \* sleep(delayMs) calls made by runners
    \* ---- exportBookAsMarkdown(bookId, userVid, retryDelays)
    retryDelays,    \* the retry schedule passed in
    endpoints,      \* the outcomes the remote endpoints may produce
    exportCalls,    \* one call per slot (the lane calling, 1 for a direct call)
    \* ---- history of a direct call of exportBookAsMarkdown
    abandoned,      \* per attempt: its requests still in flight although it
                    \* is over (Promise.all rejected before they settled);
                    \* followed for the attempt that ended last
    permanentResponses, \* [attempt, late]: responses with a permanent status
    \* ---- handleBulkExport and the component's state
    selectedBookIds,
    bulkWorking,
    progress,       \* [done, total, failed]
    retryCount,
    failedListUrl,
    pending,
    finalFailed,
    failedThisRound,
    bulkAttempt,    \* `attempt` of handleBulkExport's for loop
    bulkPc,         \* idle / awaitBatchRun / awaitSleep
    \* ---- history of the bulk run
    requested,      \* the ids the run was started with ([...selectedBookIds])
    exported,       \* per book: downloadMarkdownFile calls completed in this run
    rounds,         \* batchRun calls made by this run
    bulkPaused,     \* the waitMs of the sleep(waitMs) before the current round
    watched,        \* the book whose attempts are counted over the run (or NoBook)
    attempted,      \* attempts of the calls for `watched` that have ended in this run
    fetched,        \* fetch calls of the calls for `watched` that have ended in this run
    activeRuns,     \* handleBulkExport calls past their guard and not yet through finally
    \* ---- the rest of the popup (List.svelte:17-19)
    books,          \* the notebooks shown
    loaded,         \* getNoteBooks has settled
    singleWorking

batchVars == <<items, worker, concurrency, delayMs, runnerCount, idx, runners,
               current, promiseAll, batchState, batchError, active, claimed, pauses>>
exportVars == <<retryDelays, endpoints, exportCalls, abandoned, permanentResponses>>
runVars == <<bulkWorking, progress, retryCount, failedListUrl,
             pending, finalFailed, failedThisRound, bulkAttempt, bulkPc,
             requested, exported, rounds, bulkPaused, watched, attempted, fetched,
             activeRuns>>
bulkVars == <<selectedBookIds, runVars>>
popupVars == <<books, loaded, singleWorking>>

errorVars == <<statusArg, requestError, retryable>>
textVars == <<name, fileName, exportItems, exportOutput, errorVars, popupVars>>

vars == <<batchVars, exportVars, bulkVars, textVars>>

RunnerStates == {"none", "awaitWorker", "workerOk", "workerRaised",
                 "awaitSleep", "fulfilled", "rejected"}

\* ------------------------------------------------- exporter.ts, the pure part
\* response.ok
ResponseOk(st) == st \in 200..299

\* List.svelte:441  status === 429 || (typeof status === "number" && status >= 500)
IsNumber(status) == status # NoStatus
ShouldRetryFrom400(status) == status = 429 \/ status >= 400
ShouldRetryAbove500(status) == status = 429 \/ (IsNumber(status) /\ status > 500)
ShouldRetry(status) == status = 429 \/ (IsNumber(status) /\ status >= 500)

\* List.svelte:434-443  new ExportRequestError(message, status)
ExportRequestError(status) ==
    [name |-> "ExportRequestError", status |-> status, shouldRetry |-> ShouldRetry(status)]
\* any other exception (it has no status and no shouldRetry; both are filler)
OtherError(n) == [name |-> n, status |-> 0, shouldRetry |-> FALSE]
NoErr == OtherError("")

\* List.svelte:445-451  what fetchJson raises on outcome o (NoErr: it returns)
FetchJson(o) ==
    IF o.kind = "rejected" THEN OtherError("TypeError")
    ELSE IF ~ResponseOk(o.status) THEN ExportRequestError(o.status)
    ELSE IF o.body = "malformed" THEN OtherError("SyntaxError")
    ELSE NoErr

\* List.svelte:453-456
IsRetryableAlways(e) == TRUE
IsRetryableRequestErrorOnly(e) == e.name = "ExportRequestError" /\ e.shouldRetry
IsRetryableError(e) ==
    IF e.name = "ExportRequestError" THEN e.shouldRetry ELSE TRUE

\* List.svelte:539  attempt < retryDelays.length && isRetryableError(error)
ShouldRetryAttemptInclusive(att, delays, e) == att <= Len(delays) /\ IsRetryableError(e)
ShouldRetryAttempt(att, delays, e) == att < Len(delays) /\ IsRetryableError(e)

\* List.svelte:541  retryDelays[Math.min(attempt, retryDelays.length - 1)] || 0
WaitMsFirstEntry(att, delays) == IF delays # <<>> THEN delays[1] ELSE 0
WaitMs(att, delays) ==
    LET i == Min(att, Len(delays) - 1) + 1
    IN IF i \in DOMAIN delays THEN delays[i] ELSE 0

\* The state of one call of exportBookAsMarkdown. attempts, fetchCalls and
\* slept are its history: attempts started, fetch calls made, pauses taken.
IdleCall ==
    [pc |-> "none", bookId |-> 0, attempt |-> 0, fetching |-> {},
     unrenderable |-> FALSE, error |-> NoErr,
     attempts |-> 0, fetchCalls |-> 0, slept |-> <<>>]

\* List.svelte:512-521  the call up to its first await: three fetches started
NewCall(bookId) ==
    [IdleCall EXCEPT !.pc = "fetch", !.bookId = bookId, !.fetching = Urls,
                     !.attempts = 1, !.fetchCalls = Cardinality(Urls)]

\* List.svelte:545,519-521  attempt++ and the next Promise.all(urls.map(fetchJson))
NextAttemptRefetchesUnsettled(c) ==
    LET again == IF c.fetching = {} THEN Urls ELSE c.fetching IN
    [c EXCEPT !.pc = "fetch", !.attempt = @ + 1, !.fetching = again,
              !.unrenderable = FALSE,
              !.attempts = @ + 1, !.fetchCalls = @ + Cardinality(again)]
NextAttempt(c) ==
    [c EXCEPT !.pc = "fetch", !.attempt = @ + 1, !.fetching = Urls,
              !.unrenderable = FALSE,
              !.attempts = @ + 1, !.fetchCalls = @ + Cardinality(Urls)]

\* List.svelte:538-546  the catch block, entered with error e
Catch(c, e) ==
    IF ~ShouldRetryAttempt(c.attempt, retryDelays, e)
    THEN [c EXCEPT !.pc = "thrown", !.error = e, !.fetching = {},
                   !.unrenderable = FALSE]
    ELSE IF WaitMs(c.attempt, retryDelays) # 0
         THEN [c EXCEPT !.pc = "sleep", !.fetching = {}, !.unrenderable = FALSE,
                        !.slept = Append(@, WaitMs(c.attempt, retryDelays))]
         ELSE NextAttempt(c)

\* List.svelte:521-537  the fetch of url u settles with outcome o: Promise.all
\* rejects on the first failure, and fulfils with the third success; then
\* generateBookMark renders the three payloads (or throws).
Settle(c, u, o) ==
    LET e == FetchJson(o)
        left == c.fetching \ {u}
        unr == c.unrenderable \/ o.body = "unrenderable"
    IN IF e # NoErr THEN Catch(c, e)
       ELSE IF left # {} THEN [c EXCEPT !.fetching = left, !.unrenderable = unr]
       ELSE IF unr THEN Catch(c, OtherError("TypeError"))
       ELSE [c EXCEPT !.pc = "returned", !.fetching = {}, !.unrenderable = FALSE]

\* --------------------------------------------------------------- batchRun
\* part_000:314  Math.max(1, Math.min(concurrency, total))
RunnerCountPerItem(k, total) == total
RunnerCountNoFloor(k, total) == Min(k, total)
RunnerCount(k, total) == Max(1, Min(k, total))

\* part_000:319  const current = idx++  (one non-suspending step)
ClaimPreIncrement(i) == [current |-> i + 1, idx |-> i + 1]
ClaimNoIncrement(i) == [current |-> i, idx |-> i]
Claim(i) == [current |-> i, idx |-> i + 1]

\* part_000:318-320 for one runner: the loop test, the claim and the call of
\* worker, as a change of the record b of the batch's variables.
RunnerLoop(b, l, total) ==
    IF b.idx < total
    THEN LET c == Claim(b.idx) IN
         [b EXCEPT !.idx = c.idx,
                   !.runners[l] = "awaitWorker",
                   !.current[l] = c.current,
                   !.active = @ \cup {c.current},
                   !.claimed = Append(@, c.current)]
    ELSE [b EXCEPT !.runners[l] = "fulfilled"]

\* part_000:327  Array.from({length: runnerCount}, () => runner()): every
\* runner runs up to its first await before the next one is created.
RECURSIVE StartRunners(_, _)
StartRunners(j, total) ==
    IF j <= 0
    THEN [idx |-> 0,
          runners |-> [l \in Lanes |-> "none"],
          current |-> [l \in Lanes |-> NoError],
          active |-> {},
          claimed |-> <<>>]
    ELSE RunnerLoop(StartRunners(j - 1, total), j, total)

BatchRecord == [idx |-> idx, runners |-> runners, current |-> current,
                active |-> active, claimed |-> claimed]

\* List.svelte:122-128  the bulk worker, called by the runners of S on their
\* new `current`, runs up to the first await of exportBookAsMarkdown.
WorkersCalled(b, S, its) ==
    IF worker = "bulk"
    THEN [s \in Lanes |-> IF s \in S THEN NewCall(its[b.current[s] + 1])
                          ELSE exportCalls[s]]
    ELSE exportCalls

\* Promise.all over the runners after one of them settled (with error e, or
\* NoError): rejects with the first rejection, fulfils when every runner has.
AllAfterAnyFulfilled(rs, e) ==
    IF promiseAll.state # "pending" THEN promiseAll
    ELSE IF e # NoError THEN [state |-> "rejected", error |-> e]
    ELSE IF \E l \in 1..runnerCount : rs[l] = "fulfilled"
         THEN [state |-> "fulfilled", error |-> NoError]
         ELSE promiseAll
AllAfterAllSettled(rs, e) ==
    IF promiseAll.state # "pending" THEN promiseAll
    ELSE IF \A l \in 1..runnerCount : rs[l] \in {"fulfilled", "rejected"}
         THEN [state |-> "fulfilled", error |-> NoError]
         ELSE promiseAll
AllAfter(rs, e) ==
    IF promiseAll.state # "pending" THEN promiseAll
    ELSE IF e # NoError THEN [state |-> "rejected", error |-> e]
    ELSE IF \A l \in 1..runnerCount : rs[l] = "fulfilled"
         THEN [state |-> "fulfilled", error |-> NoError]
         ELSE promiseAll

\* part_000:306-328, the synchronous part of batchRun(its, worker, {k, d})
BatchRunCall(its, k, d) ==
    LET total == Len(its)
        rc == RunnerCount(k, total)
        b == StartRunners(rc, total)
    IN /\ items' = its
       /\ concurrency' = k
       /\ delayMs' = d
       /\ batchError' = NoError
       /\ pauses' = 0
       /\ UNCHANGED worker
       /\ IF total = 0
          THEN /\ batchState' = "fulfilled"
               /\ runnerCount' = 0
               /\ UNCHANGED <<idx, runners, current, active, claimed, promiseAll,
                              exportCalls>>
          ELSE /\ batchState' = "running"
               /\ runnerCount' = rc
               /\ idx' = b.idx
               /\ runners' = b.runners
               /\ current' = b.current
               /\ active' = b.active
               /\ claimed' = b.claimed
               /\ promiseAll' = [state |-> "pending", error |-> NoError]
               /\ exportCalls' =
                      WorkersCalled(b, {l \in Lanes : b.runners[l] = "awaitWorker"}, its)

\* a test calls batchRun(items, worker, {concurrency, delayMs})
BatchRun ==
    /\ batchState = "idle"
    /\ worker = "test"
    /\ BatchRunCall(items, concurrency, delayMs)
    /\ UNCHANGED <<retryDelays, endpoints, abandoned,
                   permanentResponses, textVars, bulkVars>>

\* the worker passed by a test settles: it returns, or it raises
WorkerSettles(l, raised) ==
    /\ worker = "test"
    /\ runners[l] = "awaitWorker"
    /\ runners' = [runners EXCEPT ![l] = IF raised THEN "workerRaised" ELSE "workerOk"]
    /\ active' = active \ {current[l]}
    /\ UNCHANGED <<items, worker, concurrency, delayMs, runnerCount, idx, current,
                   promiseAll, batchState, batchError, claimed, pauses>>
    /\ UNCHANGED <<exportVars, bulkVars, textVars>>

\* part_000:320 the await of a worker that raised: the runner's promise rejects
RunnerThrows(l) ==
    /\ runners[l] = "workerRaised"
    /\ runners' = [runners EXCEPT ![l] = "rejected"]
    /\ promiseAll' = AllAfter(runners', current[l])
    /\ UNCHANGED <<items, worker, concurrency, delayMs, runnerCount, idx, current,
                   batchState, batchError, active, claimed, pauses>>
    /\ UNCHANGED <<exportVars, bulkVars, textVars>>

\* part_000:318-320 runner l goes round its loop: claims and calls worker, or
\* leaves the loop (its promise is fulfilled)
RunnerLoops(l) ==
    LET b == RunnerLoop(BatchRecord, l, Len(items)) IN
    /\ idx' = b.idx
    /\ runners' = b.runners
    /\ current' = b.current
    /\ active' = b.active
    /\ claimed' = b.claimed
    /\ promiseAll' = AllAfter(b.runners, NoError)
    /\ exportCalls' =
           WorkersCalled(b, IF b.runners[l] = "awaitWorker" THEN {l} ELSE {}, items)

\* part_000:321  delayMs && idx < total
ShouldPauseAfterLast(d, i, total) == d # 0
ShouldPause(d, i, total) == d # 0 /\ i < total

\* part_000:321-323 after a worker that returned: pause, or go round the loop
RunnerResumes(l) ==
    /\ runners[l] = "workerOk"
    /\ IF ShouldPause(delayMs, idx, Len(items))
       THEN /\ runners' = [runners EXCEPT ![l] = "awaitSleep"]
            /\ pauses' = pauses + 1
            /\ UNCHANGED <<idx, current, active, claimed, promiseAll, exportCalls>>
       ELSE /\ RunnerLoops(l)
            /\ UNCHANGED pauses
    /\ UNCHANGED <<items, worker, concurrency, delayMs, runnerCount,
                   batchState, batchError>>
    /\ UNCHANGED <<retryDelays, endpoints, abandoned,
                   permanentResponses, textVars, bulkVars>>

\* part_000:322,331-333 the pause is over: go round the loop
SleepDone(l) ==
    /\ runners[l] = "awaitSleep"
    /\ RunnerLoops(l)
    /\ UNCHANGED <<items, worker, concurrency, delayMs, runnerCount,
                   batchState, batchError, pauses>>
    /\ UNCHANGED <<retryDelays, endpoints, abandoned,
                   permanentResponses, textVars, bulkVars>>

\* part_000:328 await Promise.all(runners): batchRun's own promise settles
BatchSettles ==
    /\ batchState = "running"
    /\ promiseAll.state # "pending"
    /\ batchState' = promiseAll.state
    /\ batchError' = promiseAll.error
    /\ UNCHANGED <<items, worker, concurrency, delayMs, runnerCount, idx, runners,
                   current, promiseAll, active, claimed, pauses>>
    /\ UNCHANGED <<exportVars, bulkVars, textVars>>

\* no file name asked for
\* the popup with its notebooks shown
InitPopupVars ==
    /\ books = [i \in 1..MaxBooks |-> i]
    /\ loaded = TRUE
    /\ singleWorking = FALSE

InitErrorVars ==
    /\ statusArg = NoStatus
    /\ requestError = NoErr
    /\ retryable = NotCalled

InitTextVars ==
    /\ name = <<>>
    /\ fileName = NoResult
    /\ exportItems = <<>>
    /\ exportOutput = NoOutput
    /\ InitErrorVars
    /\ InitPopupVars

\* state of the component before anything is clicked (List.svelte:17-23)
InitBulkVars ==
    /\ bulkWorking = FALSE
    /\ progress = [done |-> 0, total |-> 0, failed |-> <<>>]
    /\ retryCount = 0
    /\ failedListUrl = ""
    /\ pending = <<>>
    /\ finalFailed = <<>>
    /\ failedThisRound = <<>>
    /\ bulkAttempt = 0
    /\ bulkPc = "idle"
    /\ requested = <<>>
    /\ exported = [b \in Books |-> 0]
    /\ rounds = 0
    /\ bulkPaused = 0
    /\ watched = NoBook
    /\ attempted = 0
    /\ fetched = 0
    /\ activeRuns = 0

\* no batchRun call made yet
InitBatchVars ==
    /\ runnerCount = 0
    /\ idx = 0
    /\ runners = [l \in Lanes |-> "none"]
    /\ current = [l \in Lanes |-> NoError]
    /\ promiseAll = [state |-> "pending", error |-> NoError]
    /\ batchState = "idle"
    /\ batchError = NoError
    /\ active = {}
    /\ claimed = <<>>
    /\ pauses = 0

InitBatch ==
    /\ items \in ItemChoices
    /\ worker = "test"
    /\ concurrency \in ConcurrencyChoices
    /\ delayMs \in DelayChoices
    /\ InitBatchVars
    /\ retryDelays = <<>>
    /\ endpoints = FetchOutcomes
    /\ exportCalls = [s \in Lanes |-> IdleCall]
    /\ abandoned = [a \in Attempts |-> 0]
    /\ permanentResponses = {}
    /\ selectedBookIds = <<>>
    /\ InitBulkVars
    /\ InitTextVars

NextBatch ==
    \/ BatchRun
    \/ \E l \in Lanes, raised \in BOOLEAN : WorkerSettles(l, raised)
    \/ \E l \in Lanes : RunnerThrows(l)
    \/ \E l \in Lanes : RunnerResumes(l)
    \/ \E l \in Lanes : SleepDone(l)
    \/ BatchSettles

SpecBatch == InitBatch /\ [][NextBatch]_vars

\* ------------------------------------------- exportBookAsMarkdown, the steps
\* List.svelte:130  progress = { ...progress, done: progress.done + 1 }
CountedWithoutSpread(prog) == [done |-> prog.done + 1, total |-> 0, failed |-> <<>>]
Counted(prog) == [prog EXCEPT !.done = @ + 1]

\* List.svelte:133  failedThisRound.push(bookId)
PushFailedOverwrites(failed, bookId) == <<bookId>>
PushFailed(failed, bookId) == Append(failed, bookId)

\* List.svelte:129-135 and part_000:320  the bulk worker after its call c of
\* exportBookAsMarkdown ended in lane l: download and count, or record the
\* failure (downloaded = FALSE: downloadMarkdownFile threw into the catch);
\* the worker's promise is then fulfilled.
WorkerContinues(l, c, downloaded) ==
    LET ok == c.pc = "returned" /\ downloaded IN
    /\ progress' = IF ok THEN Counted(progress) ELSE progress
    /\ exported' = IF ok THEN [exported EXCEPT ![c.bookId] = @ + 1] ELSE exported
    /\ failedThisRound' =
           IF ok THEN failedThisRound ELSE PushFailed(failedThisRound, c.bookId)
    /\ attempted' = IF c.bookId = watched THEN attempted + c.attempts ELSE attempted
    /\ fetched' = IF c.bookId = watched THEN fetched + c.fetchCalls ELSE fetched
    /\ exportCalls' = [exportCalls EXCEPT ![l] = IdleCall]
    /\ runners' = [runners EXCEPT ![l] = "workerOk"]
    /\ active' = active \ {current[l]}
    /\ UNCHANGED <<items, worker, concurrency, delayMs, runnerCount, idx, current,
                   promiseAll, batchState, batchError, claimed, pauses>>
    /\ UNCHANGED <<selectedBookIds, bulkWorking, retryCount, failedListUrl,
                   pending, finalFailed, bulkAttempt, bulkPc, requested, rounds,
                   bulkPaused, watched, activeRuns>>

\* the call in slot s goes on as c; when it has ended inside the bulk worker,
\* the worker goes on at once
CallContinues(s, c, downloaded) ==
    IF worker = "bulk" /\ c.pc \in {"returned", "thrown"}
    THEN WorkerContinues(s, c, downloaded)
    ELSE /\ exportCalls' = [exportCalls EXCEPT ![s] = c]
         /\ UNCHANGED <<batchVars, bulkVars>>

\* a test, or exportSelectedSingle (List.svelte:91), calls
\* exportBookAsMarkdown(bookId, userVid, retryDelays) directly
ExportCall(bookId) ==
    /\ worker = "none"
    /\ exportCalls[1].pc = "none"
    /\ exportCalls' = [exportCalls EXCEPT ![1] = NewCall(bookId)]
    /\ UNCHANGED <<retryDelays, endpoints, abandoned,
                   permanentResponses, textVars, batchVars, bulkVars>>

\* the requests of the current attempt of c left in flight when the fetch of
\* u settles with outcome o: Promise.all rejects on a failure (List.svelte:521)
\* and nothing cancels the other requests
Abandons(c, u, o) ==
    IF FetchJson(o) # NoErr THEN Cardinality(c.fetching \ {u}) ELSE 0
\* a status that is not ok, not 429 and below 500 (List.svelte:441,447)
PermanentStatus(o) ==
    o.kind = "response" /\ ~ResponseOk(o.status) /\ o.status # 429 /\ o.status < 500
\* the record of outcome o of a request of attempt a
Seen(a, o, late) ==
    IF PermanentStatus(o) THEN {[attempt |-> a, late |-> late]}
    ELSE {}

\* List.svelte:445-451,521  one of the three fetches of the current attempt
\* settles with outcome o
FetchSettles(s, u, o, downloaded) ==
    /\ exportCalls[s].pc = "fetch"
    /\ u \in exportCalls[s].fetching
    /\ o \in endpoints
    \* downloadMarkdownFile runs (and may throw) only in the bulk worker and
    \* only after the call returned
    /\ ~downloaded => worker = "bulk" /\ Settle(exportCalls[s], u, o).pc = "returned"
    /\ CallContinues(s, Settle(exportCalls[s], u, o), downloaded)
    /\ abandoned' = IF Abandons(exportCalls[s], u, o) = 0 THEN abandoned
                     ELSE [a \in Attempts |->
                              IF a = exportCalls[s].attempts
                              THEN Abandons(exportCalls[s], u, o) ELSE 0]
    /\ permanentResponses' =
           permanentResponses \cup Seen(exportCalls[s].attempts, o, FALSE)
    /\ UNCHANGED <<retryDelays, endpoints, textVars>>

\* List.svelte:445-451,521  the response to a request of an attempt that is
\* already over arrives: its fetchJson settles, and Promise.all, rejected
\* before, takes no notice. Of the outcome only its being a permanent status
\* or not is recorded.
LateFetchSettles(a, permanent) ==
    /\ abandoned[a] > 0
    /\ \E o \in endpoints : PermanentStatus(o) = permanent
    /\ abandoned' = [abandoned EXCEPT ![a] = @ - 1]
    /\ permanentResponses' =
           permanentResponses
               \cup (IF permanent THEN {[attempt |-> a, late |-> TRUE]} ELSE {})
    /\ UNCHANGED <<retryDelays, endpoints, exportCalls, textVars, batchVars, bulkVars>>

\* The call c after the fetches of its attempt number n settled one after the
\* other with outcomes os[i], os[i+1], ...: Settle applied until the attempt is
\* over. Settle does not tell the urls apart, so the next one to settle is
\* any of those still in flight.
RECURSIVE SettleAll(_, _, _, _)
SettleAll(c, n, os, i) ==
    IF i > Len(os) \/ c.pc # "fetch" \/ c.attempts # n THEN c
    ELSE SettleAll(Settle(c, CHOOSE u \in c.fetching : TRUE, os[i]), n, os, i + 1)

\* The outcomes, in the order of settling, of the fetches of one attempt under
\* endpoints E. Promise.all looks at none after the first failure, so those
\* are taken to repeat it.
AttemptOutcomes(E) ==
    {os \in [1..Cardinality(Urls) -> E] :
        \A i \in 1..(Cardinality(Urls) - 1) :
            FetchJson(os[i]) # NoErr => os[i + 1] = os[i]}

\* List.svelte:445-451,521  all three fetches of the current attempt of the
\* call in lane s settle, in one step: the steps of FetchSettles in between
\* change nothing but the call's own record, which no other lane and no
\* step of handleBulkExport reads.
AttemptSettles(s) ==
    /\ exportCalls[s].pc = "fetch"
    /\ exportCalls[s].fetching = Urls
    /\ \E os \in AttemptOutcomes(endpoints), downloaded \in BOOLEAN :
          LET c == SettleAll(exportCalls[s], exportCalls[s].attempts, os, 1) IN
          /\ ~downloaded => worker = "bulk" /\ c.pc = "returned"
          /\ CallContinues(s, c, downloaded)
    /\ UNCHANGED <<retryDelays, endpoints, abandoned,
                   permanentResponses, textVars>>

\* List.svelte:543-545  the pause before a retry is over
RetrySleepDone(s) ==
    /\ exportCalls[s].pc = "sleep"
    /\ exportCalls' = [exportCalls EXCEPT ![s] = NextAttempt(exportCalls[s])]
    /\ UNCHANGED <<retryDelays, endpoints, abandoned,
                   permanentResponses, textVars, batchVars, bulkVars>>

InitExport ==
    /\ items = <<>>
    /\ worker = "none"
    /\ concurrency = BATCH_OPTIONS.concurrency
    /\ delayMs = BATCH_OPTIONS.delayMs
    /\ InitBatchVars
    /\ retryDelays \in RetryDelayChoices
    /\ endpoints \in EndpointChoices
    /\ exportCalls = [s \in Lanes |-> IdleCall]
    /\ abandoned = [a \in Attempts |-> 0]
    /\ permanentResponses = {}
    /\ selectedBookIds = <<>>
    /\ InitBulkVars
    /\ InitTextVars

NextExport ==
    \/ \E b \in Books : ExportCall(b)
    \/ \E u \in Urls, o \in endpoints : FetchSettles(1, u, o, TRUE)
    \/ \E a \in Attempts, permanent \in BOOLEAN : LateFetchSettles(a, permanent)
    \/ RetrySleepDone(1)

SpecExport == InitExport /\ [][NextExport]_vars

\* --------------------------------------------------------- handleBulkExport
\* List.svelte:27
hasSelection == Len(selectedBookIds) > 0

\* List.svelte:139  !failedThisRound.length
NoFailures(failed) == Len(failed) = 0

\* List.svelte:144  attempt >= BULK_RETRIES
LastRoundOffByOne(att) == att > BULK_RETRIES
LastRound(att) == att >= BULK_RETRIES

\* List.svelte:149  pending = failedThisRound
NextPendingKeepsAll(pend, failed) == pend
NextPending(pend, failed) == failed

\* List.svelte:152  RETRY_SCHEDULE[Math.min(attempt, RETRY_SCHEDULE.length - 1)] || 0
BulkWaitMsOfNextRound(att) ==
    LET i == Min(att + 1, Len(RETRY_SCHEDULE) - 1) + 1
    IN IF i \in DOMAIN RETRY_SCHEDULE THEN RETRY_SCHEDULE[i] ELSE 0
BulkWaitMs(att) ==
    LET i == Min(att, Len(RETRY_SCHEDULE) - 1) + 1
    IN IF i \in DOMAIN RETRY_SCHEDULE THEN RETRY_SCHEDULE[i] ELSE 0

\* List.svelte:164-166  finally { bulkWorking = false }: handleBulkExport ends
FinallySkipped ==
    /\ bulkWorking' = bulkWorking
    /\ bulkPc' = "idle"
    /\ activeRuns' = activeRuns - 1
Finally ==
    /\ bulkWorking' = FALSE
    /\ bulkPc' = "idle"
    /\ activeRuns' = activeRuns - 1

\* List.svelte:158-166 (and 68-74)  after the loop: publish the final failures
\* (prog, ff, url: progress, finalFailed and failedListUrl at that point)
FinishedKeepsStaleFailed(prog, ff, url) ==
    /\ progress' = IF Len(ff) > 0 THEN [prog EXCEPT !.failed = ff] ELSE prog
    /\ failedListUrl' = IF Len(ff) > 0 THEN "blob:failed_list" ELSE url
    /\ finalFailed' = ff
    /\ Finally
Finished(prog, ff, url) ==
    /\ progress' = IF Len(ff) > 0 THEN [prog EXCEPT !.failed = ff]
                   ELSE [prog EXCEPT !.failed = <<>>]
    /\ failedListUrl' = IF Len(ff) > 0 THEN "blob:failed_list" ELSE url
    /\ finalFailed' = ff
    /\ Finally

\* List.svelte:118-137  the head of the for loop with attempt = att, pending =
\* pend: another round (the synchronous part of batchRun included), or the end
\* (started: 1 when the call of handleBulkExport begins with this step, else 0)
LoopHead(att, pend, prog, ff, url, r, started) ==
    /\ bulkAttempt' = att
    /\ pending' = pend
    /\ IF att <= BULK_RETRIES /\ Len(pend) > 0
       THEN /\ failedThisRound' = <<>>
            /\ rounds' = r + 1
            /\ BatchRunCall(pend, BATCH_OPTIONS.concurrency, BATCH_OPTIONS.delayMs)
            /\ progress' = prog
            /\ finalFailed' = ff
            /\ failedListUrl' = url
            /\ bulkWorking' = TRUE
            /\ bulkPc' = "awaitBatchRun"
            /\ activeRuns' = activeRuns + started
       ELSE /\ Finished(prog, ff, url)
            /\ rounds' = r
            /\ UNCHANGED <<failedThisRound, batchVars, exportCalls>>

\* List.svelte:107  !hasSelection || bulkWorking: handleBulkExport returns at once
BulkRefusedWhenEmptyOnly == ~hasSelection
BulkRefused == ~hasSelection \/ bulkWorking

\* List.svelte:106-120  the click on the bulk export button
HandleBulkExport ==
    /\ ~BulkRefused
    /\ retryCount' = 0
    /\ requested' = selectedBookIds
    /\ exported' = [b \in Books |-> 0]
    /\ bulkPaused' = 0
    /\ attempted' = 0
    /\ fetched' = 0
    /\ LoopHead(0, selectedBookIds,
                [done |-> 0, total |-> Len(selectedBookIds), failed |-> <<>>],
                <<>>, "", 0, 1)
    /\ UNCHANGED <<selectedBookIds, watched, retryDelays, endpoints, abandoned,
                   permanentResponses, textVars>>

\* List.svelte:139-155  batchRun has settled: end, or narrow pending and pause
AfterBatchRun ==
    /\ bulkPc = "awaitBatchRun"
    /\ batchState \in {"fulfilled", "rejected"}
    /\ IF batchState = "rejected"
       THEN \* the exception leaves through finally (List.svelte:164-166)
            /\ Finally
            /\ UNCHANGED <<progress, retryCount, failedListUrl, pending, finalFailed,
                           failedThisRound, bulkAttempt, rounds, bulkPaused, batchVars,
                           exportCalls>>
       ELSE IF NoFailures(failedThisRound)
       THEN /\ Finished(progress, <<>>, failedListUrl)
            /\ UNCHANGED <<retryCount, pending, failedThisRound, bulkAttempt, rounds,
                           bulkPaused, batchVars, exportCalls>>
       ELSE IF LastRound(bulkAttempt)
       THEN /\ Finished(progress, failedThisRound, failedListUrl)
            /\ UNCHANGED <<retryCount, pending, failedThisRound, bulkAttempt, rounds,
                           bulkPaused, batchVars, exportCalls>>
       ELSE LET pend == NextPending(pending, failedThisRound)
                prog == [progress EXCEPT !.failed = pend]
                waitMs == BulkWaitMs(bulkAttempt)
            IN /\ retryCount' = bulkAttempt + 1
               /\ bulkPaused' = waitMs
               /\ IF waitMs # 0
                  THEN /\ pending' = pend
                       /\ progress' = prog
                       /\ bulkPc' = "awaitSleep"
                       /\ UNCHANGED <<bulkWorking, failedListUrl, finalFailed,
                                      failedThisRound, bulkAttempt, rounds,
                                      activeRuns, batchVars, exportCalls>>
                  ELSE LoopHead(bulkAttempt + 1, pend, prog, finalFailed,
                                failedListUrl, rounds, 0)
    /\ UNCHANGED <<selectedBookIds, requested, exported, watched, attempted, fetched,
                   retryDelays, endpoints, abandoned, permanentResponses, textVars>>

\* List.svelte:154,118  the pause between two rounds is over: attempt++
BulkSleepDone ==
    /\ bulkPc = "awaitSleep"
    /\ LoopHead(bulkAttempt + 1, pending, progress, finalFailed, failedListUrl, rounds,
                0)
    /\ UNCHANGED <<selectedBookIds, retryCount, requested, exported, bulkPaused,
                   watched, attempted, fetched, retryDelays, endpoints, abandoned,
                   permanentResponses, textVars>>

InitBulk ==
    /\ items = <<>>
    /\ worker = "bulk"
    /\ concurrency = BATCH_OPTIONS.concurrency
    /\ delayMs = BATCH_OPTIONS.delayMs
    /\ InitBatchVars
    /\ retryDelays = REQUEST_RETRY_DELAYS
    /\ endpoints = BulkEndpoints
    /\ exportCalls = [s \in Lanes |-> IdleCall]
    /\ abandoned = [a \in Attempts |-> 0]
    /\ permanentResponses = {}
    /\ selectedBookIds \in Selections
    /\ InitBulkVars
    /\ InitTextVars

NextBulk ==
    \/ HandleBulkExport
    \/ \E l \in Lanes : AttemptSettles(l)
    \/ \E l \in Lanes : RetrySleepDone(l)
    \/ \E l \in Lanes : RunnerResumes(l)
    \/ \E l \in Lanes : SleepDone(l)
    \/ BatchSettles
    \/ AfterBatchRun
    \/ BulkSleepDone

SpecBulk == InitBulk /\ [][NextBulk]_vars

\* The steps that need no click: a fetch settles, a timer fires, a
\* continuation runs. The event loop takes one whenever one is ready.
BulkProgress ==
    \/ \E l \in Lanes : AttemptSettles(l)
    \/ \E l \in Lanes : RetrySleepDone(l)
    \/ \E l \in Lanes : RunnerResumes(l)
    \/ \E l \in Lanes : SleepDone(l)
    \/ BatchSettles
    \/ AfterBatchRun
    \/ BulkSleepDone

FairBulk == WF_vars(BulkProgress)

\* a bulk export from the smallest selection with which every step of
\* batchRun happens: one book more than there are lanes
InitBulkFair ==
    /\ InitBulk
    /\ Len(selectedBookIds) = BATCH_OPTIONS.concurrency + 1

SpecBulkFair == InitBulkFair /\ [][NextBulk]_vars /\ FairBulk

\* A bulk export in which the attempts and fetch calls for one of the selected
\* books are counted, from the smallest selection with which every step of
\* batchRun happens: one book more than there are lanes.
InitBulkCounted ==
    /\ items = <<>>
    /\ worker = "bulk"
    /\ concurrency = BATCH_OPTIONS.concurrency
    /\ delayMs = BATCH_OPTIONS.delayMs
    /\ InitBatchVars
    /\ retryDelays = REQUEST_RETRY_DELAYS
    /\ endpoints = BulkEndpoints
    /\ exportCalls = [s \in Lanes |-> IdleCall]
    /\ abandoned = [a \in Attempts |-> 0]
    /\ permanentResponses = {}
    /\ selectedBookIds \in {s \in Selections : Len(s) = BATCH_OPTIONS.concurrency + 1}
    /\ bulkWorking = FALSE
    /\ progress = [done |-> 0, total |-> 0, failed |-> <<>>]
    /\ retryCount = 0
    /\ failedListUrl = ""
    /\ pending = <<>>
    /\ finalFailed = <<>>
    /\ failedThisRound = <<>>
    /\ bulkAttempt = 0
    /\ bulkPc = "idle"
    /\ requested = <<>>
    /\ exported = [b \in Books |-> 0]
    /\ rounds = 0
    /\ bulkPaused = 0
    /\ watched \in Range(selectedBookIds)
    /\ attempted = 0
    /\ fetched = 0
    /\ activeRuns = 0
    /\ InitTextVars

SpecBulkCounted == InitBulkCounted /\ [][NextBulk]_vars

\* --------------------------------------------------------- sanitizeFileName
\* String.prototype.trim
RECURSIVE TrimStart(_)
TrimStart(s) ==
    IF s # <<>> /\ Head(s) \in WhiteSpace THEN TrimStart(Tail(s)) ELSE s
RECURSIVE TrimEnd(_)
TrimEnd(s) ==
    IF s # <<>> /\ s[Len(s)] \in WhiteSpace
    THEN TrimEnd(SubSeq(s, 1, Len(s) - 1)) ELSE s
Trim(s) == TrimEnd(TrimStart(s))

\* the longest prefix of s made of characters of class
RECURSIVE RunLength(_, _)
RunLength(s, class) ==
    IF s # <<>> /\ Head(s) \in class THEN 1 + RunLength(Tail(s), class) ELSE 0

\* List.svelte:551  name.replace(/[\\/:*?"<>|]+/g, "_"): scanning from the
\* left, every longest run of illegal characters becomes one replacement
RECURSIVE ReplaceRunsDeleting(_, _)
ReplaceRunsDeleting(s, replacement) ==
    IF s = <<>> THEN <<>>
    ELSE IF Head(s) \in IllegalChars
         THEN ReplaceRunsDeleting(SubSeq(s, RunLength(s, IllegalChars) + 1, Len(s)),
                                  replacement)
         ELSE <<Head(s)>> \o ReplaceRunsDeleting(Tail(s), replacement)
RECURSIVE ReplaceRuns(_, _)
ReplaceRuns(s, replacement) ==
    IF s = <<>> THEN <<>>
    ELSE IF Head(s) \in IllegalChars
         THEN replacement
              \o ReplaceRuns(SubSeq(s, RunLength(s, IllegalChars) + 1, Len(s)),
                             replacement)
         ELSE <<Head(s)>> \o ReplaceRuns(Tail(s), replacement)

\* List.svelte:550-553
sanitizeFileName(n) ==
    LET safe == Trim(ReplaceRuns(n, <<"_">>)) IN
    IF safe # <<>> THEN safe ELSE FallbackName

\* a call of sanitizeFileName (List.svelte:565, part_000:125-126)
SanitizeFileName ==
    /\ fileName = NoResult
    /\ fileName' = sanitizeFileName(name)
    /\ UNCHANGED <<name, exportItems, exportOutput, errorVars, popupVars, batchVars,
                   exportVars, bulkVars>>

InitSanitize ==
    /\ items = <<>>
    /\ worker = "none"
    /\ concurrency = BATCH_OPTIONS.concurrency
    /\ delayMs = BATCH_OPTIONS.delayMs
    /\ InitBatchVars
    /\ retryDelays = <<>>
    /\ endpoints = FetchOutcomes
    /\ exportCalls = [s \in Lanes |-> IdleCall]
    /\ abandoned = [a \in Attempts |-> 0]
    /\ permanentResponses = {}
    /\ selectedBookIds = <<>>
    /\ InitBulkVars
    /\ name \in NameChoices
    /\ fileName = NoResult
    /\ exportItems = <<>>
    /\ exportOutput = NoOutput
    /\ InitErrorVars
    /\ InitPopupVars

NextSanitize == SanitizeFileName

SpecSanitize == InitSanitize /\ [][NextSanitize]_vars

\* ------------------------------------------------- buildCombinedExport, csv
\* a || b and a ?? b
Falsy(x) ==
    \/ x.t = "undefined"
    \/ x.t = "string" /\ x.v = <<>>
    \/ x.t = "number" /\ x.v = 0
Or(a, b) == IF Falsy(a) THEN b ELSE a
Nullish(a, b) == IF a.t = "undefined" THEN b ELSE a

\* String(v) for the values above
Digits == <<"0", "1", "2", "3", "4", "5", "6", "7", "8", "9">>
RECURSIVE NumberToString(_)
NumberToString(n) ==
    IF n < 10 THEN <<Digits[n + 1]>>
    ELSE NumberToString(n \div 10) \o <<Digits[(n % 10) + 1]>>
StringOf(x) ==
    CASE x.t = "string" -> x.v
      [] x.t = "number" -> NumberToString(x.v)
      [] OTHER -> <<"u", "n", "d", "e", "f", "i", "n", "e", "d">>

\* Array.prototype.join
RECURSIVE Join(_, _)
Join(parts, sep) ==
    IF parts = <<>> THEN <<>>
    ELSE IF Len(parts) = 1 THEN parts[1]
    ELSE parts[1] \o sep \o Join(Tail(parts), sep)

\* List.svelte:577  value.replace(/\r?\n/g, "\\n")
RECURSIVE ReplaceNewlines(_)
ReplaceNewlines(value) ==
    IF value = <<>> THEN <<>>
    ELSE IF Len(value) >= 2 /\ value[1] = "\r" /\ value[2] = "\n"
         THEN <<"\\", "n">> \o ReplaceNewlines(SubSeq(value, 3, Len(value)))
         ELSE IF Head(value) = "\n"
              THEN <<"\\", "n">> \o ReplaceNewlines(Tail(value))
              ELSE <<Head(value)>> \o ReplaceNewlines(Tail(value))

\* List.svelte:578  normalized.replace(/"/g, '""')
ReplaceQuotesBackslash(normalized) ==
    Join([i \in DOMAIN normalized |->
             IF normalized[i] = "\"" THEN <<"\\", "\"">> ELSE <<normalized[i]>>],
         <<>>)
ReplaceQuotes(normalized) ==
    Join([i \in DOMAIN normalized |->
             IF normalized[i] = "\"" THEN <<"\"", "\"">> ELSE <<normalized[i]>>],
         <<>>)

\* List.svelte:576-580
escapeCsv(value) ==
    LET normalized == ReplaceNewlines(value)
        escaped == ReplaceQuotes(normalized)
    IN <<"\"">> \o escaped \o <<"\"">>

\* List.svelte:583-591
safeItem(item) ==
    [bookId |-> item.bookId, title |-> item.title, markdown |-> item.markdown,
     coverUrl |-> item.coverUrl, author |-> item.author, rating |-> item.rating,
     notes |-> Or(item.notes, Arr(<<>>))]

\* List.svelte:603-618
header ==
    << <<"b", "o", "o", "k", "I", "d">>,
       <<"t", "i", "t", "l", "e">>,
       <<"a", "u", "t", "h", "o", "r">>,
       <<"r", "a", "t", "i", "n", "g">>,
       <<"c", "o", "v", "e", "r", "U", "r", "l">>,
       <<"c", "h", "a", "p", "t", "e", "r", "U", "i", "d">>,
       <<"c", "h", "a", "p", "t", "e", "r", "T", "i", "t", "l", "e">>,
       <<"r", "a", "n", "g", "e">>,
       <<"m", "a", "r", "k", "T", "e", "x", "t">>,
       <<"r", "e", "v", "i", "e", "w", "T", "e", "x", "t">>,
       <<"c", "r", "e", "a", "t", "e", "d", "A", "t">>,
       <<"r", "e", "a", "d", "i", "n", "g", "T", "i", "m", "e">>,
       <<"s", "t", "a", "r", "t", "T", "i", "m", "e">>,
       <<"f", "i", "n", "i", "s", "h", "T", "i", "m", "e">> >>
\* List.svelte:621  the stand-in note { markdown: item.markdown }
MarkdownNote(item) ==
    [f \in NoteFields |-> IF f = "markdown" THEN item.markdown ELSE Undef]
NotesOf(item) ==
    IF Len(item.notes.v) > 0 THEN item.notes.v ELSE <<MarkdownNote(item)>>

\* List.svelte:623-641  the fields of one row and the row
RowFields(item, note) ==
    << Or(note.bookId, item.bookId),
       item.title,
       Or(item.author, Str(<<>>)),
       Or(item.rating, Str(<<>>)),
       Or(Or(note.coverUrl, item.coverUrl), Str(<<>>)),
       Nullish(note.chapterUid, Str(<<>>)),
       Or(note.chapterTitle, Str(<<>>)),
       Or(note.range, Str(<<>>)),
       Or(Or(note.markText, note.markdown), Str(<<>>)),
       Or(note.reviewText, Str(<<>>)),
       Or(note.createdAt, Str(<<>>)),
       Or(note.readingTime, Str(<<>>)),
       Or(note.startTime, Str(<<>>)),
       Or(note.finishTime, Str(<<>>)) >>
Row(item, note) ==
    LET fields == RowFields(item, note) IN
    Join([i \in DOMAIN fields |-> escapeCsv(StringOf(Nullish(fields[i], Str(<<>>))))],
         <<",">>)

\* List.svelte:619-644  rows, book after book
RECURSIVE Rows(_)
Rows(safeItems) ==
    IF safeItems = <<>> THEN <<>>
    ELSE LET item == Head(safeItems)
             notes == NotesOf(item)
         IN [j \in DOMAIN notes |-> Row(item, notes[j])] \o Rows(Tail(safeItems))

\* List.svelte:582-651  buildCombinedExport(its, "csv")
buildCombinedExport(its) ==
    LET safeItems == [i \in DOMAIN its |-> safeItem(its[i])]
        rows == Rows(safeItems)
        content == Join(<<Join(header, <<",">>)>> \o rows, <<"\n">>)
    IN [fileName |-> "weread-export.csv", content |-> content,
        mimeType |-> "text/csv;charset=utf-8"]

\* a call of buildCombinedExport(items, "csv") (List.svelte:669, part_000:168)
BuildCombinedExport ==
    /\ exportOutput = NoOutput
    /\ exportOutput' = buildCombinedExport(exportItems)
    /\ UNCHANGED <<name, fileName, exportItems, errorVars, popupVars, batchVars,
                   exportVars, bulkVars>>

InitCsv ==
    /\ items = <<>>
    /\ worker = "none"
    /\ concurrency = BATCH_OPTIONS.concurrency
    /\ delayMs = BATCH_OPTIONS.delayMs
    /\ InitBatchVars
    /\ retryDelays = <<>>
    /\ endpoints = FetchOutcomes
    /\ exportCalls = [s \in Lanes |-> IdleCall]
    /\ abandoned = [a \in Attempts |-> 0]
    /\ permanentResponses = {}
    /\ selectedBookIds = <<>>
    /\ InitBulkVars
    /\ name = <<>>
    /\ fileName = NoResult
    /\ exportItems \in ExportItemChoices
    /\ exportOutput = NoOutput
    /\ InitErrorVars
    /\ InitPopupVars

NextCsv == BuildCombinedExport

SpecCsv == InitCsv /\ [][NextCsv]_vars

\* ------------------------------- ExportRequestError and isRetryableError
\* List.svelte:438-442  new ExportRequestError(message, status)
NewExportRequestError ==
    /\ requestError = NoErr
    /\ requestError' = ExportRequestError(statusArg)
    /\ UNCHANGED <<statusArg, retryable, name, fileName, exportItems, exportOutput,
                   popupVars, batchVars, exportVars, bulkVars>>

\* List.svelte:453-456,539  isRetryableError(error) on the error constructed
IsRetryableErrorCall ==
    /\ requestError # NoErr
    /\ retryable = NotCalled
    /\ retryable' = <<IsRetryableError(requestError)>>
    /\ UNCHANGED <<statusArg, requestError, name, fileName, exportItems, exportOutput,
                   popupVars, batchVars, exportVars, bulkVars>>

InitError ==
    /\ items = <<>>
    /\ worker = "none"
    /\ concurrency = BATCH_OPTIONS.concurrency
    /\ delayMs = BATCH_OPTIONS.delayMs
    /\ InitBatchVars
    /\ retryDelays = <<>>
    /\ endpoints = FetchOutcomes
    /\ exportCalls = [s \in Lanes |-> IdleCall]
    /\ abandoned = [a \in Attempts |-> 0]
    /\ permanentResponses = {}
    /\ selectedBookIds = <<>>
    /\ InitBulkVars
    /\ name = <<>>
    /\ fileName = NoResult
    /\ exportItems = <<>>
    /\ exportOutput = NoOutput
    /\ statusArg \in StatusChoices
    /\ requestError = NoErr
    /\ retryable = NotCalled
    /\ InitPopupVars

NextError ==
    \/ NewExportRequestError
    \/ IsRetryableErrorCall

SpecError == InitError /\ [][NextError]_vars

\* ------------------------------------------------ the popup (List.svelte)
\* the notebooks the api may list: up to one book more than there are lanes,
\* the smallest list with which every step of batchRun happens
ShelfChoices == {list \in Selections : Len(list) <= BATCH_OPTIONS.concurrency + 1}

\* List.svelte:34-44  getNoteBooks() settles: the list is shown and its first
\* book selected (a failure shows in the console and leaves the list empty)
GetNoteBooksSettles ==
    /\ ~loaded
    /\ \E list \in ShelfChoices :
          /\ books' = list
          /\ selectedBookIds' = IF Len(list) > 0 THEN <<list[1]>> ELSE <<>>
    /\ loaded' = TRUE
    /\ UNCHANGED <<singleWorking, runVars, batchVars, exportVars, name, fileName,
                   exportItems, exportOutput, errorVars>>

\* List.svelte:46-50  toggleSelectAll(event)
ToggleSelectAll(checked) ==
    /\ ~(Len(books) = 0 \/ bulkWorking)
    /\ selectedBookIds' = IF checked THEN books ELSE <<>>
    /\ UNCHANGED <<popupVars, runVars, batchVars, exportVars, name, fileName,
                   exportItems, exportOutput, errorVars>>

\* List.svelte:52-59  toggleSelectBook(bookId), on a card of the list
ToggleSelectBook(bookId) ==
    /\ bookId \in Range(books)
    /\ ~bulkWorking
    /\ selectedBookIds' =
           IF bookId \in Range(selectedBookIds)
           THEN SelectSeq(selectedBookIds, LAMBDA id : id # bookId)
           ELSE Append(selectedBookIds, bookId)
    /\ UNCHANGED <<popupVars, runVars, batchVars, exportVars, name, fileName,
                   exportItems, exportOutput, errorVars>>

\* List.svelte:81-90  exportSelectedSingle() up to its await; without a
\* selection it returns, with several books it only alerts
ExportSelectedSingle ==
    /\ ~(singleWorking \/ bulkWorking)
    /\ Len(selectedBookIds) = 1
    /\ singleWorking' = TRUE
    /\ UNCHANGED <<books, loaded, bulkVars, batchVars, exportVars, name, fileName,
                   exportItems, exportOutput, errorVars>>

\* List.svelte:91-103  the call of exportBookAsMarkdown and the copy to the
\* clipboard have ended, well or not: alert, and finally singleWorking = false.
\* (The attempts of the call are followed in SpecExport; they touch nothing
\* of the popup.)
SingleExportSettles ==
    /\ singleWorking
    /\ singleWorking' = FALSE
    /\ UNCHANGED <<books, loaded, bulkVars, batchVars, exportVars, name, fileName,
                   exportItems, exportOutput, errorVars>>

\* the popup as mounted: getNoteBooks() called, nothing shown yet
InitPopup ==
    /\ items = <<>>
    /\ worker = "bulk"
    /\ concurrency = BATCH_OPTIONS.concurrency
    /\ delayMs = BATCH_OPTIONS.delayMs
    /\ InitBatchVars
    /\ retryDelays = REQUEST_RETRY_DELAYS
    /\ endpoints = BulkEndpoints
    /\ exportCalls = [s \in Lanes |-> IdleCall]
    /\ abandoned = [a \in Attempts |-> 0]
    /\ permanentResponses = {}
    /\ selectedBookIds = <<>>
    /\ InitBulkVars
    /\ name = <<>>
    /\ fileName = NoResult
    /\ exportItems = <<>>
    /\ exportOutput = NoOutput
    /\ InitErrorVars
    /\ books = <<>>
    /\ loaded = FALSE
    /\ singleWorking = FALSE

NextPopup ==
    \/ GetNoteBooksSettles
    \/ \E checked \in BOOLEAN : ToggleSelectAll(checked)
    \/ \E bookId \in Books : ToggleSelectBook(bookId)
    \/ ExportSelectedSingle
    \/ SingleExportSettles
    \/ NextBulk

SpecPopup == InitPopup /\ [][NextPopup]_vars

\* ------------------------------------------------------- claims on batchRun
Occurrences(s, x) == Cardinality({i \in DOMAIN s : s[i] = x})
Indices == 0..(Len(items) - 1)
Settled == batchState \in {"fulfilled", "rejected"}
Started == 1..runnerCount

\* C1: with n = items.length > 0, the number of worker invocations started and
\* not yet finished is at every moment at most max(1, min(k, n)); for k <= n
\* it never exceeds k.
C1_ActiveAtMostConcurrency ==
    Len(items) > 0 =>
        /\ \/ Cardinality(active) <= 1
           \/ Cardinality(active) <= concurrency /\ Cardinality(active) <= Len(items)
        /\ (1 <= concurrency /\ concurrency <= Len(items))
               => Cardinality(active) <= concurrency

\* C1 witness: k < n workers are active at once after a later claim was made
C1_Witness ==
    /\ concurrency >= 2
    /\ concurrency < Len(items)
    /\ Cardinality(active) = concurrency
    /\ idx > concurrency

\* C2: no index is passed to worker twice, every index passed is one of
\* 0..n-1, and when batchRun completes normally (no worker raised) every
\* index has been passed to worker exactly once.
C2_EachIndexClaimedOnce ==
    /\ \A i \in DOMAIN claimed : claimed[i] \in Indices
    /\ \A i \in Indices : Occurrences(claimed, i) <= 1
    /\ batchState = "fulfilled" => \A i \in Indices : Occurrences(claimed, i) = 1

\* C2 witness: a run of several lanes over more items than lanes completed
C2_Witness ==
    /\ batchState = "fulfilled"
    /\ runnerCount >= 2
    /\ Len(items) > runnerCount

\* C3 as stated: whenever the promise batchRun returned has settled, no lane
\* is executing a worker or pausing and no index is left unclaimed.
C3_SettlesOnlyWhenExhausted ==
    Settled =>
        /\ \A l \in Started : runners[l] \notin {"awaitWorker", "awaitSleep"}
        /\ idx >= Len(items)

\* C3 amended: whenever the promise batchRun returned has been fulfilled, every
\* lane has left its loop, no worker is active, no lane pauses and every
\* index has been claimed.
C3_FulfilsOnlyWhenExhausted ==
    batchState = "fulfilled" =>
        /\ \A l \in Started : runners[l] = "fulfilled"
        /\ active = {}
        /\ idx >= Len(items)

\* C3 witness: a fulfilled run in which a lane paused and lanes shared the work
C3_Witness ==
    /\ batchState = "fulfilled"
    /\ runnerCount >= 2
    /\ pauses >= 1

\* C4 as stated: a lane whose worker raised has stopped, and once the call
\* has settled it has failed with that lane's error.
C4_FailsWithEveryRaisedError ==
    \A l \in Started :
        (runners[l] = "rejected" /\ Settled) =>
            batchState = "rejected" /\ batchError = current[l]

\* C4 amended: a lane whose worker raised never claims again; the call is
\* never fulfilled once a worker has raised; and it fails with the error of
\* the worker whose lane was the first to fail (errors of later failing lanes
\* are dropped by Promise.all).
C4_FailsWithFirstRaisedError ==
    /\ [][\A l \in Lanes : runners[l] = "rejected" =>
              runners'[l] = "rejected" /\ current'[l] = current[l]]_vars
    /\ [][\A l \in Lanes :
              (/\ runners[l] = "workerRaised" /\ runners'[l] = "rejected"
               /\ \A m \in Lanes : runners[m] # "rejected")
              => promiseAll' = [state |-> "rejected", error |-> current[l]]]_vars
    /\ [][promiseAll.state = "rejected" => promiseAll' = promiseAll]_vars
    /\ []((\E l \in Lanes : runners[l] \in {"workerRaised", "rejected"})
              => batchState # "fulfilled")
    /\ [](batchState = "rejected" =>
              /\ promiseAll.state = "rejected"
              /\ batchError = promiseAll.error
              /\ \E l \in Started : runners[l] = "rejected" /\ current[l] = batchError)

\* C4 witness: the call failed with the first error, a second lane failed
\* too, and an index was never claimed
C4_Witness ==
    /\ batchState = "rejected"
    /\ \E l, m \in Started :
          /\ l # m
          /\ runners[l] = "rejected" /\ runners[m] = "rejected"
          /\ batchError = current[l]
    /\ idx < Len(items)
\* ------------------------------------------- claims on exportBookAsMarkdown
\* the direct call
Call == exportCalls[1]
\* retryable as the specification defines it: status 429 or >= 500, or any
\* error that is not a request error
Retryable(e) == e.name # "ExportRequestError" \/ e.status = 429 \/ e.status >= 500
\* the errors an attempt can end with under the run's endpoints
PossibleErrors ==
    ({FetchJson(o) : o \in endpoints} \ {NoErr})
        \cup (IF \E o \in endpoints : o.body = "unrenderable"
              THEN {OtherError("TypeError")} ELSE {})

\* C5: after a failed attempt a new attempt starts iff the attempt counter (the
\* number of attempts that failed before this one) is < retryDelays.length and
\* the error is retryable; otherwise the error propagates unchanged. So there
\* are at most retryDelays.length + 1 attempts, and exactly that many when
\* every attempt fails with a retryable error.
C5_RetriesIffWarranted ==
    LET n == Len(retryDelays) IN
    /\ Call.pc # "none" => Call.attempts = Call.attempt + 1
    /\ Call.attempts <= n + 1
    /\ Call.pc = "sleep" => Call.attempt < n
    /\ Call.pc = "thrown" =>
          /\ Call.error \in PossibleErrors
          /\ Call.attempt >= n \/ ~Retryable(Call.error)
    /\ (\A e \in PossibleErrors : ~Retryable(e)) => Call.attempts <= 1
    /\ (Call.pc = "thrown" /\ \A e \in PossibleErrors : Retryable(e))
          => Call.attempts = n + 1

\* C5 witness: a schedule of two entries was used up by retryable failures,
\* one retry after a pause and one without
C5_Witness ==
    /\ Call.pc = "thrown"
    /\ Retryable(Call.error)
    /\ Len(retryDelays) = 2
    /\ Call.attempts = 3
    /\ Len(Call.slept) = 1

\* the endpoints answer every request with a non-retryable status
PermanentOnly ==
    \A o \in endpoints :
        /\ o.kind = "response"
        /\ o.status \notin 200..299
        /\ o.status # 429
        /\ o.status < 500

\* C6: when the endpoints answer with a non-retryable status, the call makes
\* exactly one attempt (3 fetch calls) and raises an ExportRequestError,
\* whatever the retry schedule: the first response to arrive ends the call.
C6_PermanentStatusOneAttempt ==
    PermanentOnly =>
        /\ Call.pc \in {"none", "fetch", "thrown"}
        /\ Call.pc = "fetch" =>
              Call.attempts = 1 /\ Call.fetchCalls = 3 /\ Call.fetching = Urls
        /\ Call.pc = "thrown" =>
              /\ Call.attempts = 1
              /\ Call.fetchCalls = 3
              /\ Call.error.name = "ExportRequestError"
              /\ Call.error.status \in {o.status : o \in endpoints}

\* C6 witness: the call raised under a schedule of two retries
C6_Witness ==
    /\ PermanentOnly
    /\ Cardinality(endpoints) = 2
    /\ Len(retryDelays) = 2
    /\ Call.pc = "thrown"
\* ---------------------------------------------------- claims on the bulk export
RunEnded == bulkPc = "idle" /\ rounds > 0
InRound == bulkPc = "awaitBatchRun"
\* indices of the round whose worker has finished
FinishedIdx == Range(claimed) \ active
RECURSIVE SumExported(_)
SumExported(B) ==
    IF B = {} THEN 0
    ELSE LET b == CHOOSE x \in B : TRUE IN exported[b] + SumExported(B \ {b})

\* C7: in a bulk export no task failure leaves the worker: no runner and no
\* batchRun call ever fails. A task that has finished in the current round
\* either failed, and its id is in the round's failure list exactly once and
\* it was not counted, or succeeded and was counted once; unfinished tasks are
\* in neither. progress.done is the number of successes (no update is lost).
C7_FailuresCaughtAndCounted ==
    /\ batchState # "rejected"
    /\ promiseAll.state # "rejected"
    /\ \A l \in Lanes : runners[l] \notin {"workerRaised", "rejected"}
    /\ progress.done = SumExported(Books)
    /\ InRound =>
          /\ Range(failedThisRound) \subseteq Range(items)
          /\ \A i \in Indices :
                LET b == items[i + 1] IN
                IF i \in FinishedIdx
                THEN \/ Occurrences(failedThisRound, b) = 1 /\ exported[b] = 0
                     \/ Occurrences(failedThisRound, b) = 0 /\ exported[b] = 1
                ELSE Occurrences(failedThisRound, b) = 0 /\ exported[b] = 0

\* C7 witness: in one round two tasks failed and one succeeded
C7_Witness ==
    /\ InRound
    /\ rounds = 1
    /\ Len(failedThisRound) = 2
    /\ progress.done = 1

\* C8: when a bulk export has ended every requested id was exported exactly
\* once or is in the final failed list exactly once, never both, never
\* neither, and done + |failed| = total. No book is exported twice, and a book
\* exported in an earlier round is in no later round (nor in pending).
C8_FinalPartition ==
    /\ \A b \in Books : exported[b] <= 1
    /\ InRound => \A i \in Indices : exported[items[i + 1]] >= 1 => i \in FinishedIdx
    /\ bulkPc = "awaitSleep" => \A b \in Range(pending) : exported[b] = 0
    /\ RunEnded =>
          /\ \A b \in Range(requested) :
                \/ exported[b] = 1 /\ Occurrences(progress.failed, b) = 0
                \/ exported[b] = 0 /\ Occurrences(progress.failed, b) = 1
          /\ Range(progress.failed) \subseteq Range(requested)
          /\ progress.total = Len(requested)
          /\ progress.done = Cardinality({b \in Range(requested) : exported[b] = 1})
          /\ progress.done + Len(progress.failed) = progress.total

\* C8 witness: a run of three rounds ended with two books exported and one failed
C8_Witness ==
    /\ RunEnded
    /\ rounds = 3
    /\ progress.done = 2
    /\ Len(progress.failed) = 1

\* C9: a round without failures is the last one: the run ends at once, with no
\* pause and no further round, and with the failure list empty, every
\* requested book exported.
C9_CleanRoundEndsRun ==
    /\ [](bulkPc = "awaitSleep" => Len(failedThisRound) > 0)
    /\ [](InRound => Len(items) > 0)
    /\ []((RunEnded /\ Len(failedThisRound) = 0) =>
              /\ progress.failed = <<>>
              /\ finalFailed = <<>>
              /\ failedListUrl = ""
              /\ progress.done = progress.total
              /\ \A b \in Range(requested) : exported[b] = 1)
    /\ [][(InRound /\ batchState = "fulfilled" /\ Len(failedThisRound) = 0)
              => (bulkPc' = "idle" /\ ~bulkWorking' /\ rounds' = rounds)]_vars

\* C9 witness: a book failed in round 0 and succeeded in round 1, and the run
\* ended with everything exported
C9_Witness ==
    /\ RunEnded
    /\ rounds = 2
    /\ Len(failedThisRound) = 0
    /\ progress.failed = <<>>
    /\ progress.done = progress.total
    /\ progress.total >= 2

\* C10: a bulk export runs at most BULK_RETRIES + 1 = 3 rounds. If failures
\* remain after the round of index BULK_RETRIES, the run ends at once, without
\* a pause or another round, and exactly those ids are the final failed list.
C10_LastRoundFailuresAreFinal ==
    /\ [](rounds <= 3 /\ BULK_RETRIES + 1 = 3 /\ bulkAttempt <= BULK_RETRIES)
    /\ [](bulkPc # "idle" => rounds = bulkAttempt + 1)
    /\ [](bulkPc = "awaitSleep" => bulkAttempt < BULK_RETRIES)
    /\ []((RunEnded /\ Len(failedThisRound) > 0) =>
              /\ bulkAttempt = BULK_RETRIES
              /\ rounds = 3
              /\ progress.failed = failedThisRound
              /\ finalFailed = failedThisRound
              /\ failedListUrl # "")
    /\ [][(InRound /\ batchState = "fulfilled" /\ Len(failedThisRound) > 0
             /\ bulkAttempt >= BULK_RETRIES)
              => (bulkPc' = "idle" /\ ~bulkWorking' /\ rounds' = rounds
                    /\ progress'.failed = failedThisRound)]_vars

\* C10 witness: the third round left two failures, which are the final list
C10_Witness ==
    /\ RunEnded
    /\ rounds = 3
    /\ bulkAttempt = BULK_RETRIES
    /\ Len(progress.failed) = 2
    /\ progress.failed = failedThisRound
\* ----------------------------------------------- claims on sanitizeFileName
AllIn(s, class) == \A i \in DOMAIN s : s[i] \in class
\* the indices of s that are outside class, in ascending order
RECURSIVE Ascending(_)
Ascending(S) ==
    IF S = {} THEN <<>>
    ELSE LET m == CHOOSE x \in S : \A y \in S : x <= y IN <<m>> \o Ascending(S \ {m})
\* s between its first and its last character that is not white space
Trimmed(s) ==
    LET K == {i \in DOMAIN s : s[i] \notin WhiteSpace} IN
    IF K = {} THEN <<>>
    ELSE LET lo == CHOOSE i \in K : \A j \in K : i <= j
             hi == CHOOSE i \in K : \A j \in K : j <= i
         IN [i \in 1..(hi - lo + 1) |-> s[lo + i - 1]]
\* s without its illegal characters
Stripped(s) ==
    LET K == Ascending({i \in DOMAIN s : s[i] \notin IllegalChars}) IN
    [i \in DOMAIN K |-> s[K[i]]]
\* s with an underscore for the first character of every run of illegal
\* characters and nothing for the others
Underscored(s) ==
    LET K == Ascending({i \in DOMAIN s :
                           \/ s[i] \notin IllegalChars
                           \/ i = 1
                           \/ s[i - 1] \notin IllegalChars})
    IN [i \in DOMAIN K |-> IF s[K[i]] \in IllegalChars THEN "_" ELSE s[K[i]]]

\* C11 as claimed: a name of illegal characters only, or of white space only,
\* gives the fallback label; every other name gives the name with the illegal
\* characters stripped and the surrounding white space trimmed.
C11_FallbackOrStripped ==
    fileName # NoResult =>
        IF AllIn(name, IllegalChars) \/ AllIn(name, WhiteSpace)
        THEN fileName = FallbackName
        ELSE fileName = Trimmed(Stripped(name))

\* C11 as the code does it: exactly the names of white space only (the empty
\* name included) give the fallback label; every other name gives the name
\* with each run of illegal characters replaced by one underscore, then
\* trimmed, so the result is never empty and holds no illegal character.
C11_FallbackOrUnderscored ==
    fileName # NoResult =>
        /\ fileName # <<>>
        /\ ~(\E i \in DOMAIN fileName : fileName[i] \in IllegalChars)
        /\ IF AllIn(name, WhiteSpace)
           THEN fileName = FallbackName
           ELSE fileName = Trimmed(Underscored(name))

\* C11 witness: a name with a run of two illegal characters between others
\* was sanitized to a shorter name with one underscore
C11_Witness ==
    /\ fileName # NoResult
    /\ \E i \in DOMAIN name :
          /\ i + 1 \in DOMAIN name
          /\ name[i] \in IllegalChars
          /\ name[i + 1] \in IllegalChars
    /\ \E i \in DOMAIN name : name[i] = "a"
    /\ name[1] \in WhiteSpace
    /\ Len(fileName) < Len(name) - 1
    /\ Occurrences(fileName, "_") = 1
\* ------------------------------------------- claims on buildCombinedExport
\* the lines of a text: the pieces between its line feeds
LineBreaks(c) == Ascending({i \in DOMAIN c : c[i] = "\n"})
Lines(c) ==
    LET br == LineBreaks(c) IN
    [k \in 1..(Len(br) + 1) |->
        SubSeq(c, IF k = 1 THEN 1 ELSE br[k - 1] + 1,
                  IF k = Len(br) + 1 THEN Len(c) ELSE br[k] - 1)]
\* reading a line as quoted, comma separated fields with "" for a quote inside:
\* ReadField reads from the character after the opening quote
RECURSIVE ReadField(_, _, _)
ReadField(line, pos, acc) ==
    IF pos > Len(line) THEN [ok |-> FALSE, value |-> acc, next |-> pos]
    ELSE IF line[pos] # "\"" THEN ReadField(line, pos + 1, Append(acc, line[pos]))
    ELSE IF pos < Len(line) /\ line[pos + 1] = "\""
         THEN ReadField(line, pos + 2, Append(acc, "\""))
         ELSE [ok |-> TRUE, value |-> acc, next |-> pos + 1]
RECURSIVE ReadFields(_, _, _)
ReadFields(line, pos, fields) ==
    IF pos > Len(line) \/ line[pos] # "\"" THEN [ok |-> FALSE, fields |-> fields]
    ELSE LET f == ReadField(line, pos + 1, <<>>) IN
         IF ~f.ok THEN [ok |-> FALSE, fields |-> fields]
         ELSE IF f.next > Len(line) THEN [ok |-> TRUE, fields |-> Append(fields, f.value)]
         ELSE IF line[f.next] # "," THEN [ok |-> FALSE, fields |-> fields]
         ELSE ReadFields(line, f.next + 1, Append(fields, f.value))
ParseRow(line) == ReadFields(line, 1, <<>>)
\* a text with backslash-n for every LF and every CR LF
Unbroken(tx) ==
    Join([i \in DOMAIN tx |->
             IF tx[i] = "\n" THEN <<"\\", "n">>
             ELSE IF tx[i] = "\r" /\ i < Len(tx) /\ tx[i + 1] = "\n" THEN <<>>
             ELSE <<tx[i]>>],
         <<>>)
NoteCount(book) == IF book.notes.t = "array" THEN Len(book.notes.v) ELSE 0
\* the rows expected, in input order: <<book, note>>, note 0 for a book
\* without notes
RECURSIVE RowOwners(_, _)
RowOwners(its, i) ==
    IF i > Len(its) THEN <<>>
    ELSE (IF NoteCount(its[i]) = 0 THEN << <<i, 0>> >>
          ELSE [j \in 1..NoteCount(its[i]) |-> <<i, j>>])
         \o RowOwners(its, i + 1)
Produced == exportOutput.fileName # ""

PermanentError(e) ==
    /\ e.name = "ExportRequestError"
    /\ e.status \notin 200..299
    /\ e.status # 429
    /\ e.status < 500
InTime == {r \in permanentResponses : ~r.late}

\* C13 as claimed: whenever a response of an attempt carries a permanent
\* status, in whatever order the three requests settle, the call raises in
\* that attempt and makes no further attempt.
C13_AnyPermanentResponseEndsCall ==
    \A r \in permanentResponses :
        /\ Call.pc = "thrown"
        /\ Call.attempts = r.attempt

\* C13 as the code does it: when the first failure of an attempt to arrive
\* carries a permanent status, the call raises that error at once and makes no
\* further attempt, whatever the other two responses are and whether or not
\* they have arrived. A permanent status that arrives after another failure of
\* its attempt arrives too late: Promise.all has rejected with the earlier
\* error, which alone decides between retry and raise.
C13_FirstFailurePermanentEndsCall ==
    /\ \A r \in InTime :
          /\ Call.pc = "thrown"
          /\ Call.attempts = r.attempt
          /\ Call.fetchCalls = 3 * r.attempt
          /\ PermanentError(Call.error)
    /\ Cardinality(InTime) <= 1
    /\ (Call.pc = "thrown" /\ PermanentError(Call.error)) =>
          \E r \in InTime : r.attempt = Call.attempts
    /\ \A r \in permanentResponses \ InTime :
          \/ Call.attempts > r.attempt
          \/ Call.pc \in {"sleep", "thrown"}

\* C13 witness: the second attempt ended with a permanent status that arrived
\* after one good response and before the third response
C13_Witness ==
    /\ Call.pc = "thrown"
    /\ PermanentError(Call.error)
    /\ [attempt |-> 2, late |-> FALSE] \in permanentResponses
    /\ abandoned[2] = 1
\* ------------------------------- claims on who writes the bulk run's state
\* the lanes of a round are running: every step taken now is a step of a
\* task inside a batchRun lane, not of handleBulkExport itself
InLanes == bulkPc = "awaitBatchRun" /\ batchState = "running"

\* C14 as claimed: progress, the round's failure list and the pending list
\* change only in steps of handleBulkExport itself, never in a step taken
\* inside a batchRun lane.
C14_OnlyOrchestratorWrites ==
    [][(progress' # progress \/ failedThisRound' # failedThisRound
          \/ pending' # pending) => ~InLanes]_vars

\* C14 as the code does it: the pending list, progress.total, progress.failed
\* and retryCount change only in steps of handleBulkExport itself, while no
\* lane runs. progress.done and the round's failure list are written by the
\* worker callback inside the lanes: a step of a lane either adds one to
\* progress.done, or appends one id of the round to the failure list, or
\* leaves both alone.
C14_LanesWriteDoneAndFailures ==
    [][/\ (pending' # pending \/ progress'.total # progress.total
             \/ progress'.failed # progress.failed \/ retryCount' # retryCount
             \/ finalFailed' # finalFailed \/ bulkWorking' # bulkWorking)
          => ~InLanes
       /\ InLanes =>
             \/ progress' = progress /\ failedThisRound' = failedThisRound
             \/ /\ progress'.done = progress.done + 1
                /\ failedThisRound' = failedThisRound
             \/ /\ progress' = progress
                /\ \E b \in Range(items) : failedThisRound' = Append(failedThisRound, b)]_vars

\* C14 witness: in the second round, whose pending list handleBulkExport set
\* from the first round's failures, lanes have counted successes and recorded
\* a failure
C14_Witness ==
    /\ InLanes
    /\ rounds = 2
    /\ Len(progress.failed) >= 1
    /\ progress.done >= 1
    /\ Len(failedThisRound) >= 1
\* ------------------------------------- claims on batchRun's order and lanes
\* C15: over all lanes together the k-th index passed to worker is k - 1, and
\* the shared counter is the number of indices claimed so far; the order in
\* which the workers finish is not tied to it (see the witness).
C15_ClaimsAscending ==
    batchState # "idle" =>
        /\ \A k \in DOMAIN claimed : claimed[k] = k - 1
        /\ idx = Len(claimed)
        /\ active \subseteq Range(claimed)

\* C15 witness: the worker of index 1 finished before the worker of index 0,
\* and its lane went on to claim index 2
C15_Witness ==
    /\ claimed = <<0, 1, 2>>
    /\ active = {0, 2}

\* C16: a lane whose worker returned pauses next iff delayMs > 0 and an
\* unclaimed item remains at that moment; otherwise it goes round its loop at
\* once. With one lane and delayMs > 0 there is one pause between consecutive
\* workers and none after the last: n - 1 pauses in a completed run.
C16_PausesBetweenClaims ==
    /\ [][\A l \in Lanes :
             (runners[l] = "workerOk" /\ runners'[l] # "workerOk") =>
                 /\ runners'[l] = "awaitSleep" <=> (delayMs > 0 /\ idx < Len(items))
                 /\ pauses' = pauses + 1 <=> (delayMs > 0 /\ idx < Len(items))
                 /\ runners'[l] = "awaitSleep" => claimed' = claimed
                 /\ runners'[l] # "awaitSleep" => pauses' = pauses]_vars
    /\ []((runnerCount = 1 /\ delayMs > 0 /\ claimed # <<>>) =>
              /\ pauses = IF runners[1] = "awaitSleep"
                          THEN Len(claimed) ELSE Len(claimed) - 1
              /\ batchState = "fulfilled" => pauses = Len(items) - 1)
    /\ [](delayMs = 0 => pauses = 0)

\* C16 witness: one lane with a delay completed three items with two pauses
C16_Witness ==
    /\ batchState = "fulfilled"
    /\ runnerCount = 1
    /\ delayMs > 0
    /\ Len(items) = 3
    /\ pauses = 2

\* C17: batchRun over no items completes at once, starts no lane and calls no
\* worker; over n > 0 items it starts max(1, min(concurrency, n)) lanes: one
\* for concurrency <= 0, n for concurrency > n, concurrency otherwise.
C17_LanesStarted ==
    batchState # "idle" =>
        LET n == Len(items)
            lanes == {l \in Lanes : runners[l] # "none"}
        IN /\ Cardinality(lanes) = runnerCount
           /\ n = 0 => runnerCount = 0 /\ batchState = "fulfilled" /\ claimed = <<>>
           /\ (n > 0 /\ concurrency <= 0) => runnerCount = 1
           /\ (n > 0 /\ concurrency > n) => runnerCount = n
           /\ (n > 0 /\ concurrency >= 1 /\ concurrency <= n) => runnerCount = concurrency

\* C17 witness: a run asked for with concurrency -1 over several items
\* completed on one lane
C17_Witness ==
    /\ batchState = "fulfilled"
    /\ concurrency < 0
    /\ Len(items) >= 2
    /\ runnerCount = 1
    /\ Len(claimed) = Len(items)
\* -------------------------- claims on the attempts of exportBookAsMarkdown
\* C18: every attempt starts the three requests together, so the fetch calls
\* made are 3 times the attempts started. The call returns only from an
\* attempt whose three requests all settled well, on the last of them; a
\* retry fetches all three urls again, whatever had arrived in the failed
\* attempt (a failed attempt and a successful one are 6 fetch calls).
C18_ThreeRequestsPerAttempt ==
    /\ [](Call.fetchCalls = 3 * Call.attempts /\ Cardinality(Urls) = 3)
    /\ [](Call.fetching \subseteq Urls)
    /\ [](Call.pc = "returned" =>
              /\ Call.fetching = {}
              /\ abandoned[Call.attempts] = 0
              /\ \A r \in permanentResponses : r.attempt < Call.attempts
              /\ \E o \in endpoints : FetchJson(o) = NoErr /\ o.body # "unrenderable")
    /\ [](Call.pc = "fetch" => Call.fetching # {})
    /\ [][/\ Call'.attempts # Call.attempts =>
                /\ Call'.attempts = Call.attempts + 1
                /\ Call'.pc = "fetch"
                /\ Call'.fetching = Urls
                /\ Call'.fetchCalls = Call.fetchCalls + 3
          /\ (Call'.pc = "returned" /\ Call.pc # "returned") =>
                /\ Call.pc = "fetch"
                /\ Cardinality(Call.fetching) = 1]_vars

\* C18 witness: the first attempt failed after one good response, with its
\* third request still in flight; the second attempt succeeded: 6 fetch calls
C18_Witness ==
    /\ Call.pc = "returned"
    /\ Call.attempts = 2
    /\ Call.fetchCalls = 6
    /\ abandoned[1] = 1

\* the entries of a schedule that are not 0
NonZero(delays) == SelectSeq(delays, LAMBDA ms : ms # 0)

\* C19: the pause before the retry that follows failed attempt number i
\* (counted from 0) is retryDelays[min(i, length - 1)], and an entry of 0 means
\* no pause: the pauses taken are the non-zero entries of the schedule, in
\* order, up to the current attempt. The attempt counter goes up by one with
\* every retry, after a pause or without one.
C19_RetryPauses ==
    /\ [](Call.slept =
             NonZero(SubSeq(retryDelays, 1,
                            IF Call.pc = "sleep" THEN Call.attempt + 1 ELSE Call.attempt)))
    /\ [](Call.pc # "none" => Call.attempts = Call.attempt + 1)
    /\ [][/\ (Call.pc = "fetch" /\ Call'.pc = "sleep") =>
                /\ Call.attempt + 1 =
                       Min(Call.attempt, Len(retryDelays) - 1) + 1
                /\ retryDelays[Call.attempt + 1] # 0
                /\ Call'.slept = Append(Call.slept, retryDelays[Call.attempt + 1])
                /\ Call'.attempt = Call.attempt
          /\ (Call.pc = "fetch" /\ Call'.attempts = Call.attempts + 1) =>
                /\ retryDelays[Min(Call.attempt, Len(retryDelays) - 1) + 1] = 0
                /\ Call'.slept = Call.slept
                /\ Call'.attempt = Call.attempt + 1
          /\ (Call.pc = "sleep" /\ Call'.pc # "sleep") =>
                /\ Call'.pc = "fetch"
                /\ Call'.attempt = Call.attempt + 1
                /\ Call'.slept = Call.slept]_vars

\* C19 witness: under the schedule <<0, 1000>> the first retry came without a
\* pause and the second after a pause of 1000
C19_Witness ==
    /\ retryDelays = <<0, 1000>>
    /\ Call.pc = "fetch"
    /\ Call.attempt = 2
    /\ Call.slept = <<1000>>

\* the endpoints never answer with a request error and never well: fetch
\* rejects, or the body does not parse, or the payload cannot be rendered
UnclassifiedOnly ==
    \A o \in endpoints :
        \/ o.kind = "rejected"
        \/ o.status \in 200..299 /\ o.body \in {"malformed", "unrenderable"}

\* C20: a failure that is not an ExportRequestError is retried as long as the
\* schedule has an entry left and raised after that: the call raises such an
\* error only from attempt number retryDelays.length, and when every failure
\* is of this kind the call makes all retryDelays.length + 1 attempts.
C20_UnclassifiedErrorsRetried ==
    /\ (Call.pc = "thrown" /\ Call.error.name # "ExportRequestError") =>
          /\ Call.error.name \in {"TypeError", "SyntaxError"}
          /\ Call.attempt = Len(retryDelays)
          /\ Call.attempts = Len(retryDelays) + 1
          /\ Call.fetchCalls = 3 * (Len(retryDelays) + 1)
    /\ UnclassifiedOnly =>
          /\ Call.pc # "returned"
          /\ Call.pc = "thrown" =>
                Call.error.name # "ExportRequestError"
                    /\ Call.attempts = Len(retryDelays) + 1

\* C20 witness: bodies that do not parse used up a schedule of two entries
C20_Witness ==
    /\ Call.pc = "thrown"
    /\ Call.error.name = "SyntaxError"
    /\ Len(retryDelays) = 2
    /\ Call.attempts = 3
    /\ Call.fetchCalls = 9
\* ------------------------------------------- claims on ExportRequestError
\* C21: an ExportRequestError has shouldRetry true exactly when its status is
\* 429 or a number >= 500, and false for every other status and without a
\* status; the field is set by the constructor, keeps its value, and is the
\* value isRetryableError returns for the error.
C21_ShouldRetryFromStatus ==
    /\ [](requestError # NoErr =>
              /\ requestError.name = "ExportRequestError"
              /\ requestError.status = statusArg
              /\ requestError.shouldRetry
                     <=> (statusArg \in {429} \cup 500..(MaxStatus + 1))
              /\ statusArg = NoStatus => ~requestError.shouldRetry)
    /\ [](retryable # NotCalled => retryable = <<requestError.shouldRetry>>)
    /\ [][requestError # NoErr => requestError' = requestError]_vars

\* C21 witness: isRetryableError returned true for an error of status 500
C21_Witness ==
    /\ statusArg = 500
    /\ requestError # NoErr
    /\ requestError.shouldRetry
    /\ retryable = <<TRUE>>
\* C22: when a round of a bulk export ends with failures before the last
\* round, the next round runs exactly the ids that failed in the round just
\* finished (none exported, all requested), the round index advances by one,
\* and the round starts (its first requests are issued) only once the pause of
\* RETRY_SCHEDULE[min(roundIndex - 1, length - 1)] ms is over, roundIndex
\* being the index of the round that starts; no request is out in the pause.
RetryRoundStarts == rounds >= 1 /\ rounds' = rounds + 1
ScheduleEntry(roundIndex) ==
    RETRY_SCHEDULE[Min(roundIndex - 1, Len(RETRY_SCHEDULE) - 1) + 1]
C22_NextRoundAfterPause ==
    /\ [][RetryRoundStarts =>
              /\ Len(failedThisRound) > 0
              /\ pending' = failedThisRound
              /\ items' = failedThisRound
              /\ AllIn(pending', Range(requested))
              /\ \A i \in DOMAIN failedThisRound : exported[failedThisRound[i]] = 0
              /\ bulkAttempt' = bulkAttempt + 1
              /\ bulkAttempt' <= BULK_RETRIES
              /\ bulkPc = "awaitSleep"
              /\ bulkPaused = ScheduleEntry(bulkAttempt')
              /\ \E l \in Lanes : exportCalls'[l].pc # "none"]_vars
    /\ [][(bulkPc = "awaitBatchRun" /\ bulkPc' # "awaitBatchRun"
              /\ batchState = "fulfilled" /\ Len(failedThisRound) > 0
              /\ bulkAttempt < BULK_RETRIES)
            => /\ bulkPc' = "awaitSleep"
               /\ bulkPaused' = ScheduleEntry(bulkAttempt + 1)
               /\ pending' = failedThisRound
               /\ UNCHANGED <<rounds, bulkAttempt>>]_vars
    /\ [](bulkPc = "awaitSleep" => \A l \in Lanes : exportCalls[l].pc = "none")

\* C22 witness: round 2 runs after the pause of 3000 ms
C22_Witness ==
    /\ bulkPc = "awaitBatchRun"
    /\ bulkAttempt = 2
    /\ rounds = 3
    /\ bulkPaused = 3000
    /\ Len(pending) > 0
\* C23: in a bulk export a task retries on the first two entries of
\* RETRY_SCHEDULE only, so that a task makes at most 3 attempts (9 fetch
\* calls) in its round, and over the whole run (at most 3 rounds) one book is
\* attempted at most 9 times, with at most 27 fetch calls.
RunningFor(b) == {l \in Lanes : exportCalls[l].pc # "none" /\ exportCalls[l].bookId = b}
RECURSIVE SumOver(_, _, _)
SumOver(S, field, i) ==
    IF i > MaxItems + 1 THEN 0
    ELSE (IF i \in S THEN exportCalls[i][field] ELSE 0) + SumOver(S, field, i + 1)
TotalAttempts == attempted + SumOver(RunningFor(watched), "attempts", 1)
TotalFetches == fetched + SumOver(RunningFor(watched), "fetchCalls", 1)
IsPrefix(s, t) == Len(s) <= Len(t) /\ \A i \in DOMAIN s : s[i] = t[i]
C23_AttemptsBounded ==
    /\ [](\A l \in Lanes :
             /\ exportCalls[l].attempts <= 3
             /\ exportCalls[l].fetchCalls <= 9
             /\ IsPrefix(exportCalls[l].slept, <<RETRY_SCHEDULE[1], RETRY_SCHEDULE[2]>>))
    /\ [](/\ Cardinality(RunningFor(watched)) <= 1
          /\ rounds <= 3
          /\ TotalAttempts <= 3 * rounds
          /\ TotalFetches <= 9 * rounds
          /\ TotalAttempts <= 9
          /\ TotalFetches <= 27)
    /\ [][attempted' <= attempted + 3 /\ fetched' <= fetched + 9]_vars

\* C23 witness: the watched book has failed 3 attempts in each of 3 rounds
C23_Witness ==
    /\ rounds = 3
    /\ attempted = 9
    /\ fetched = 27
    /\ watched \in Range(finalFailed)
\* C24: when every fetch settles, every timer fires and every continuation
\* runs, a bulk export terminates: bulkWorking is reset to false, which
\* happens only once every exportBookAsMarkdown call has ended (each after at
\* most Len(retryDelays) + 1 attempts), the batchRun round has settled and
\* the loop over the rounds is left.
C24_BulkExportTerminates ==
    /\ bulkWorking ~> ~bulkWorking
    /\ [](~bulkWorking =>
             /\ \A l \in Lanes : exportCalls[l].pc = "none"
             /\ batchState # "running"
             /\ bulkPc = "idle")
    /\ [](\A l \in Lanes : exportCalls[l].attempts <= Len(retryDelays) + 1)
    /\ [](rounds <= BULK_RETRIES + 1)

\* C24 witness: a run has ended after three rounds with final failures, and
\* with a book exported
C24_Witness ==
    /\ ~bulkWorking
    /\ bulkPc = "idle"
    /\ rounds = BULK_RETRIES + 1
    /\ Len(finalFailed) > 0
    /\ progress.done > 0
    /\ \A l \in Lanes : exportCalls[l].pc = "none"
\* ----------------------------------------------------- claims on the popup
\* C25: while bulkWorking is true no handler of the popup takes effect: no
\* second bulk run starts (at most one call of handleBulkExport is past its
\* guard), no single export starts, the selection, the ids the run was
\* started with and progress.total stay as they were when the run began, and
\* progress changes only in steps of the run, its done count never going back.
C25_BulkRunExcludesHandlers ==
    /\ [](activeRuns <= 1)
    /\ [](bulkWorking <=> activeRuns = 1)
    /\ [](bulkWorking => /\ requested = selectedBookIds
                         /\ progress.total = Len(selectedBookIds))
    /\ [][bulkWorking => /\ selectedBookIds' = selectedBookIds
                         /\ requested' = requested
                         /\ progress'.total = progress.total
                         /\ progress'.done >= progress.done
                         /\ rounds' >= rounds
                         /\ singleWorking' => singleWorking]_vars
    /\ [][progress' # progress => bulkWorking \/ bulkWorking']_vars

\* C25 witness: a bulk run of two books picked by hand is in its second
\* round, with a single export begun before it still under way
C25_Witness ==
    /\ bulkWorking
    /\ singleWorking
    /\ selectedBookIds = <<3, 1>>
    /\ rounds = 2
    /\ progress.done = 1
====
